---- MODULE Spec2Model ----
(***************************************************************************)
(* Centralized Logging on AWS: the log-event transformer (Kinesis ->       *)
(* Firehose) and the custom-resource helper that manages the regional      *)
(* CloudWatch Logs destinations.                                            *)
(*                                                                          *)
(* The repository holds two generations of the transformer handler: the    *)
(* one that splits the documents of a record with chunksArray before       *)
(* sending them (build "chunked") and the one that hands the whole list to *)
(* putRecords (build "unchunked").  The variable build says which of the   *)
(* two is deployed.                                                        *)
(***************************************************************************)
EXTENDS Integers, Sequences, FiniteSets, TLC

\* ------------------------------------------------------------------------
\* Bounds of the model
\* ------------------------------------------------------------------------
MaxRecords == 2      \* Kinesis records in one transformer invocation
MaxArr == 4          \* length of the lists given to chunksArray on its own
MaxN == 5            \* chunk sizes given to chunksArray on its own
MaxRegions == 2      \* length of the Regions property of a destination request
MaxRequests == 2     \* consecutive requests for the service-linked role
MaxAdded == 3        \* suppressions that one resource has had or was given
MaxFields == 2       \* fields that the extractedFields of a log event hold

\* ------------------------------------------------------------------------
\* Program constants
\* ------------------------------------------------------------------------
\* the literal of `chunksArray(records, 499)`
BatchSize == 499

VARIABLES
    \* ---- transformer ----
    build,        \* "chunked" | "unchunked": which handler source is deployed
    SEND_METRIC,  \* process.env.SEND_METRIC
    Records,      \* event.Records, each one described by its payload
    hpc,          \* handler promise: "idle" | "mapping" | "awaiting" | "resolved" | "rejected"
    started,      \* how many callbacks of event.Records.map have been entered
    task,         \* per record, the promise of its async callback
    gunzips,      \* per record, how many times zlib.gunzipSync ran on it
    docs,         \* per record, the records array of createRecordsFromEvents
    batches,      \* per record, the lists handed to putRecords
    bst,          \* per record and batch: "inflight" | "metric" | "done" | "failed"
    sinkCalls,    \* firehose.putRecordBatch calls, in the order issued
    metricCalls,  \* usage metric reports, in the order issued
    logged,       \* logger.error lines: <<record, text>>
    metricErrors, \* <<record, batch>> of the metric reports whose POST failed
    \* ---- chunksArray on its own ----
    cArr, cN, cOut, cDone,
    \* ---- helper, Custom::CWDestination ----
    RequestType,  \* event.RequestType
    Regions,      \* event.ResourceProperties.Regions
    hst,          \* handler promise: "idle" | "pending" | "returned" | "rejected"
    status,       \* status of crudDestinations: "pending" | "SUCCESS" | "FAILED"
    gpc,          \* getRegions promise: "idle" | "pending" | "resolved" | "rejected"
    regions,      \* the region list handed to deleteDestination / putDestination
    dpc,          \* deleteDestination promise: "idle" | "pending" | "resolved" | "rejected"
    ppc,          \* putDestination promise: "idle" | "deleting" | "creating" | "resolved" | "rejected"
    del,          \* per entry of regions, its delete call: "inflight" | "ok" | "failed"
    cr,           \* per entry of regions, its create: "create" | "policy" | "done" |
                  \* "createFailed" | "policyFailed"
    awsCalls,     \* the calls made to AWS, in the order issued
    dest,         \* per region, the destination that CloudWatch Logs holds
    dest0,        \* dest at the start of the invocation
    caught,       \* message of the exception caught by crudDestinations, "" if none
    errMsg,       \* message of the Error the handler rejects with, "" if none
    run,          \* which invocation this is, for the same request: 1 or 2
    dest1,        \* dest when the first invocation returned
    describeOut,  \* how ec2.describeRegions settled: "ok", "error", "noRegions";
                  \* "-" before
    \* --- one call of areRegionsValid
    vRegions,     \* its argument regions
    vAwsRegions,  \* its argument awsRegions
    vValid,       \* what it returned
    vDone,        \* whether it has returned
    \* --- the helper handling Custom::CreateESServiceRole requests
    eRequestType, \* event.RequestType of the current request
    epc,          \* "idle", "calling" (iam.createServiceLinkedRole under way),
                  \* "returned", "rejected"
    eError,       \* name of the error of the IAM call, "none" if it succeeded,
                  \* "-" if there was no call
    eStatus,      \* status of the response: "pending", "SUCCESS", "FAILED"
    roleExists,   \* whether the account has the service-linked role
    eHistory,     \* the requests handled before, in order
    \* --- the helper's dispatch on ResourceType and RequestType
    dResourceType, \* event.ResourceType
    dRequestType, \* event.RequestType
    dSendMetric,  \* process.env.SEND_METRIC
    dEnvSet,      \* whether process.env.STACK and CLUSTER_SIZE are set
    dst,          \* "idle", "calling" (IAM), "posting" (metrics), "crud"
                  \* (crudDestinations under way), "returned", "rejected"
    dCalls,       \* the external calls made, in order
    dStatus,      \* status of the response: "pending", "SUCCESS", "FAILED"
    dData,        \* the response's data: [key, value]
    dPost,        \* how the metrics POST settled, "-" before
    dMinted,      \* the identifiers that uuidv4 was asked for, in order
    \* --- one call of transform
    xMessage,     \* logEvent.message
    xExtracted,   \* whether logEvent.extractedFields is there
    xFields,      \* logEvent.extractedFields: per key, [has, raw]
    xTimestamp,   \* logEvent.timestamp, epoch millis as [s, ms]
    xId,          \* logEvent.id
    xOwner,       \* the payload's owner
    xDoc,         \* the document returned: per key, a value
    xDone,        \* whether transform has returned
    \* --- applyCfnNagSuppressRules on one resource
    nagHas,       \* whether resource.cfnOptions.metadata.cfn_nag is there
    nagRules,     \* its rules_to_suppress
    nagHist,      \* every suppression there at the start or added since, in order
    nagCalls,     \* how many calls were made
    \* --- the auth custom-resource handler
    authBuild,    \* which handler is deployed: "uuid" (auth/index.js) or
                  \* "domain" (the one that manages the user pool domain)
    aRequestType, \* event.RequestType
    aResource,    \* event.ResourceProperties.Resource
    apc,          \* "idle", "cognito", "es" (an AWS call under way), "sending"
                  \* (the PUT of the response under way), "done" (context.done
                  \* called), "returned" (nothing under way, no context.done)
    aCalls,       \* the AWS calls made, in order
    aResponses,   \* the statuses given to sendResponse, in order
    aPut,         \* how the PUT of the response settled, "-" before
    aHistory      \* the requests handled before: their type and responses

tvars == <<build, SEND_METRIC, Records, hpc, started, task, gunzips, docs,
           batches, bst, sinkCalls, metricCalls, logged,
           metricErrors>>
cvars == <<cArr, cN, cOut, cDone>>
hvars == <<RequestType, Regions, hst, status, gpc, regions, dpc, ppc, del, cr,
           awsCalls, dest, dest0, caught, errMsg, run, dest1, describeOut>>
avars == <<vRegions, vAwsRegions, vValid, vDone>>
evars == <<eRequestType, epc, eError, eStatus, roleExists, eHistory>>
dvars == <<dResourceType, dRequestType, dSendMetric, dEnvSet, dst, dCalls,
           dStatus, dData, dPost, dMinted>>
xvars == <<xMessage, xExtracted, xFields, xTimestamp, xId, xOwner, xDoc, xDone>>
nvars == <<nagHas, nagRules, nagHist, nagCalls>>
uvars == <<authBuild, aRequestType, aResource, apc, aCalls, aResponses, aPut,
           aHistory>>
vars == <<tvars, cvars, hvars, avars, evars, dvars, xvars, nvars, uvars>>

\* every variable but those of one group
exceptT == <<cvars, hvars, avars, evars, dvars, xvars, nvars, uvars>>
exceptC == <<tvars, hvars, avars, evars, dvars, xvars, nvars, uvars>>
exceptH == <<tvars, cvars, avars, evars, dvars, xvars, nvars, uvars>>
exceptA == <<tvars, cvars, hvars, evars, dvars, xvars, nvars, uvars>>
exceptE == <<tvars, cvars, hvars, avars, dvars, xvars, nvars, uvars>>
exceptD == <<tvars, cvars, hvars, avars, evars, xvars, nvars, uvars>>
exceptX == <<tvars, cvars, hvars, avars, evars, dvars, nvars, uvars>>
exceptN == <<tvars, cvars, hvars, avars, evars, dvars, xvars, uvars>>
exceptU == <<tvars, cvars, hvars, avars, evars, dvars, xvars, nvars>>

Min(a, b) == IF a < b THEN a ELSE b

\* ------------------------------------------------------------------------
\* chunksArray (pure)
\* ------------------------------------------------------------------------
\* Array.prototype.slice(b, e) for 0 <= b <= e: the end is clamped
slice(arr, b, e) == SubSeq(arr, b + 1, Min(e, Len(arr)))

\* a chunk one element short: slice(i, i + n - 1)
chunkOf_short(arr, i, n) == slice(arr, i, i + n - 1)

\* `const chunk = arr.slice(i, i + n)`
chunkOf(arr, i, n) == slice(arr, i, i + n)

RECURSIVE chunksLoop(_, _, _, _)
\* `for (let i = 0; i < arr.length; i += n) { resultArray.push(chunk) }`
chunksLoop(arr, n, i, resultArray) ==
    IF i < Len(arr)
    THEN chunksLoop(arr, n, i + n, Append(resultArray, chunkOf(arr, i, n)))
    ELSE resultArray

chunksArray(arr, n) == chunksLoop(arr, n, 0, <<>>)

RECURSIVE Flatten(_)
Flatten(ss) == IF ss = <<>> THEN <<>> ELSE Head(ss) \o Flatten(Tail(ss))

\* (r.Data as Buffer).byteLength of the firehose record made of document d:
\* documents differ in size
byteLength(d) == 20 + (d % 7)

\* the sum of byteLength over records[lo..hi]
RECURSIVE sumBytes(_, _, _)
sumBytes(records, lo, hi) ==
    IF lo > hi THEN 0
    ELSE IF lo = hi THEN byteLength(records[lo])
    ELSE LET mid == (lo + hi) \div 2
         IN sumBytes(records, lo, mid) + sumBytes(records, mid + 1, hi)

\* `records.forEach((r) => { totalItemSize += r.Data.byteLength })`
totalItemSize(records) == sumBytes(records, 1, Len(records))

\* the report is sent whatever SEND_METRIC says
sendsMetric_ungated(sendMetric) == TRUE

\* `if (process.env.SEND_METRIC === "Yes")`
sendsMetric(sendMetric) == sendMetric = "Yes"

\* the POST's failure leaves sendAnonymousMetric and fails putRecords
afterMetric_throws(ok) == IF ok THEN "done" ELSE "failed"

\* sendAnonymousMetric returns a string from its try block and from its
\* catch block: putRecords goes on either way
afterMetric(ok) == "done"

CeilDiv(a, b) == (a + b - 1) \div b

\* ------------------------------------------------------------------------
\* Transformer: payloads
\* ------------------------------------------------------------------------
\* What a Kinesis record holds: gzip/json say whether the bytes gunzip and
\* parse, n is the number of logEvents, shaping is FALSE when
\* createRecordsFromEvents throws on them (logEvents missing, a timestamp
\* that toISOString refuses).
Payload(gz, js, mt, n, sh) ==
    [gzip |-> gz, json |-> js, messageType |-> mt, n |-> n, shaping |-> sh]

\* logEvents of a DATA_MESSAGE: none, one full batch, one more than a batch
DocCounts == {0, BatchSize, BatchSize + 1}

Payloads ==
    {Payload(FALSE, FALSE, "NONE", 0, FALSE),
     Payload(TRUE, FALSE, "NONE", 0, FALSE),
     Payload(TRUE, TRUE, "CONTROL_MESSAGE", 1, TRUE),
     Payload(TRUE, TRUE, "UNKNOWN", 1, TRUE),
     Payload(TRUE, TRUE, "DATA_MESSAGE", 1, FALSE)}
    \cup {Payload(TRUE, TRUE, "DATA_MESSAGE", n, TRUE) : n \in DocCounts}

\* the CONTROL_MESSAGE branch is missing: every parsed payload is shaped
ValidData_noControl(r) ==
    r.gzip /\ r.json /\ r.messageType # "UNKNOWN" /\ r.shaping

\* a record that the handler has documents to send for: its bytes gunzip
\* and parse, it is no CONTROL_MESSAGE but a DATA_MESSAGE, and its events
\* are shaped without an exception
ValidData(r) ==
    r.gzip /\ r.json /\ r.messageType = "DATA_MESSAGE" /\ r.shaping

RecIdx == 1..Len(Records)

\* `records.push({Data: Buffer.from(JSON.stringify(transformedEvent))})` for
\* each log event, in order; document k comes from log event k
createRecordsFromEvents(n) == [k \in 1..n |-> k]

\* `const recordsLists = await chunksArray(records, 499)`, then one
\* putRecords per list
batchesChunked(records) == chunksArray(records, BatchSize)

\* `await putRecords(records)`: the whole list in one call
batchesUnchunked(records) == <<records>>

\* the lists of one record that go to putRecords, one call each
batchesOf(b, records) ==
    IF b = "chunked" THEN batchesChunked(records) ELSE batchesUnchunked(records)

\* the catch block of the record callback rethrows
handlerCatch_rethrow == "rejected"

\* `catch (e) { logger.error(...) }`: the callback's promise is fulfilled
handlerCatch == "fulfilled"

\* Promise.all: the first rejection rejects
allSettled_all(tasks) ==
    IF \E i \in DOMAIN tasks : tasks[i] = "rejected" THEN "rejected"
    ELSE IF \A i \in DOMAIN tasks : tasks[i] = "fulfilled" THEN "resolved"
    ELSE "awaiting"

\* `await Promise.allSettled(...)`: resolves once every promise has settled
allSettled(tasks) ==
    IF \A i \in DOMAIN tasks : tasks[i] \in {"fulfilled", "rejected"}
    THEN "resolved" ELSE "awaiting"

\* a callback that is not async: its throw leaves map
mapNext_sync(i, threw) == IF threw THEN Len(Records) ELSE i

\* `event.Records.map(async (r) => {...})`: the callback is async, so a throw
\* in it settles its own promise and map goes on to the next record
mapNext(i, threw) == i

\* ------------------------------------------------------------------------
\* Transformer: the handler
\* ------------------------------------------------------------------------
Seqs(S, lo, hi) == UNION {[1..k -> S] : k \in lo..hi}

TInit ==
    /\ build \in {"chunked", "unchunked"}
    /\ SEND_METRIC \in {"Yes", "No"}
    /\ Records \in Seqs(Payloads, 0, MaxRecords)
    /\ hpc = "idle"
    /\ started = 0
    /\ task = [i \in RecIdx |-> "notstarted"]
    /\ gunzips = [i \in RecIdx |-> 0]
    /\ docs = [i \in RecIdx |-> <<>>]
    /\ batches = [i \in RecIdx |-> <<>>]
    /\ bst = [i \in RecIdx |-> <<>>]
    /\ sinkCalls = <<>>
    /\ metricCalls = [i \in RecIdx |-> <<>>]
    /\ logged = {}
    /\ metricErrors = {}

\* the gunzip failure is swallowed without a log line
syncErrors_silent(i, r) ==
    IF ~r.gzip THEN {}
    ELSE IF ~r.json THEN {<<i, "SyntaxError">>}
    ELSE IF r.messageType = "DATA_MESSAGE" /\ ~r.shaping THEN {<<i, "TypeError">>}
    ELSE {}

\* what the callback of record i logs before its first await
syncErrors(i, r) ==
    IF ~r.gzip
    THEN {<<i, "error in reading data">>, <<i, "error in decompressing data">>}
    ELSE IF ~r.json THEN {<<i, "SyntaxError">>}
    ELSE IF r.messageType = "DATA_MESSAGE" /\ ~r.shaping THEN {<<i, "TypeError">>}
    ELSE {}

\* the putRecordBatch calls of the lists bs of record i, in order
callsOf(i, bs) == [j \in 1..Len(bs) |-> [rec |-> i, batch |-> j, Records |-> bs[j]]]

\* a record callback once its sends are under way: the first failed send
\* rejects Promise.all (or the lone await) and lands in the catch block, and
\* it returns when every send and its metric report are through
taskAfter(t, states, failedNow) ==
    IF t # "awaitSends" THEN t
    ELSE IF failedNow THEN handlerCatch
    ELSE IF \A j \in DOMAIN states : states[j] = "done" THEN "fulfilled"
    ELSE t

\* the invocation: logger.debug(event), then event.Records.map starts
Invoke ==
    /\ hpc = "idle"
    /\ hpc' = IF Len(Records) = 0 THEN allSettled(task) ELSE "mapping"
    /\ UNCHANGED <<build, SEND_METRIC, Records, started, task, gunzips, docs,
                   batches, bst, sinkCalls, metricCalls, logged, metricErrors>>

\* the callback of record i up to its first await (or its return)
StartRecord(i) ==
    /\ hpc = "mapping"
    /\ i = started + 1
    /\ i <= Len(Records)
    /\ LET r == Records[i]
           threw == syncErrors(i, r) # {}
           toSend == ValidData(r)
           recs == IF toSend THEN createRecordsFromEvents(r.n) ELSE <<>>
           bs == IF toSend THEN batchesOf(build, recs) ELSE <<>>
           now == toSend /\ build = "unchunked"
           t == IF threw THEN handlerCatch
                ELSE IF ~toSend THEN "fulfilled"
                ELSE IF build = "chunked" THEN "awaitChunks"
                ELSE "awaitSends"
       IN /\ gunzips' = [gunzips EXCEPT ![i] = @ + 1]
          /\ logged' = logged \cup syncErrors(i, r)
          /\ docs' = [docs EXCEPT ![i] = recs]
          /\ batches' = [batches EXCEPT ![i] = bs]
          /\ bst' = [bst EXCEPT ![i] = IF now THEN <<"inflight">> ELSE <<>>]
          /\ sinkCalls' = IF now THEN sinkCalls \o callsOf(i, bs) ELSE sinkCalls
          /\ task' = [task EXCEPT ![i] = t]
          /\ started' = mapNext(i, threw)
          /\ hpc' = IF started' = Len(Records) THEN allSettled(task') ELSE "mapping"
    /\ UNCHANGED <<build, SEND_METRIC, Records, metricCalls, metricErrors>>

\* after `await chunksArray(records, 499)`: one putRecords per chunk, all
\* called before the callback awaits Promise.all
ResumeAfterChunks(i) ==
    /\ hpc = "awaiting"
    /\ task[i] = "awaitChunks"
    /\ \A j \in 1..(i - 1) : task[j] # "awaitChunks"
    /\ bst' = [bst EXCEPT ![i] = [j \in 1..Len(batches[i]) |-> "inflight"]]
    /\ sinkCalls' = sinkCalls \o callsOf(i, batches[i])
    /\ task' = [task EXCEPT ![i] = taskAfter("awaitSends", bst'[i], FALSE)]
    /\ hpc' = allSettled(task')
    /\ UNCHANGED <<build, SEND_METRIC, Records, started, gunzips, docs,
                   batches, metricCalls, logged, metricErrors>>

Quiet == hpc \in {"awaiting", "resolved", "rejected"}
         /\ \A i \in RecIdx : task[i] # "awaitChunks"

\* firehose.putRecordBatch of batch j of record i settles
SinkSettle(i, j, ok) ==
    /\ Quiet
    /\ j \in DOMAIN bst[i]
    /\ bst[i][j] = "inflight"
    /\ LET report == ok /\ sendsMetric(SEND_METRIC)
           st == IF ~ok THEN "failed" ELSE IF report THEN "metric" ELSE "done"
       IN /\ bst' = [bst EXCEPT ![i][j] = st]
          /\ metricCalls' = IF report
                            THEN [metricCalls EXCEPT ![i] =
                                    Append(@, [batch |-> j,
                                               TotalItemSize |->
                                                  totalItemSize(batches[i][j])])]
                            ELSE metricCalls
          /\ logged' = IF ~ok /\ task[i] = "awaitSends"
                       THEN logged \cup {<<i, "putRecordBatch failed">>}
                       ELSE logged
          /\ task' = [task EXCEPT ![i] = taskAfter(@, bst'[i], ~ok)]
          /\ hpc' = IF hpc = "awaiting" THEN allSettled(task') ELSE hpc
    /\ UNCHANGED <<build, SEND_METRIC, Records, started, gunzips, docs,
                   batches, sinkCalls, metricErrors>>

\* the POST of the usage metric of batch j of record i settles; the metrics
\* collaborator catches a failure itself
MetricSettle(i, j, ok) ==
    /\ Quiet
    /\ j \in DOMAIN bst[i]
    /\ bst[i][j] = "metric"
    /\ bst' = [bst EXCEPT ![i][j] = afterMetric(ok)]
    /\ metricErrors' = IF ok THEN metricErrors ELSE metricErrors \cup {<<i, j>>}
    /\ logged' = IF bst'[i][j] = "failed" /\ task[i] = "awaitSends"
                 THEN logged \cup {<<i, "sending the metric failed">>}
                 ELSE logged
    /\ task' = [task EXCEPT ![i] = taskAfter(@, bst'[i], bst'[i][j] = "failed")]
    /\ hpc' = IF hpc = "awaiting" THEN allSettled(task') ELSE hpc
    /\ UNCHANGED <<build, SEND_METRIC, Records, started, gunzips, docs,
                   batches, sinkCalls, metricCalls>>

\* ------------------------------------------------------------------------
\* Helper: the regional CloudWatch Logs destinations
\* ------------------------------------------------------------------------
\* The helper of lines 1-412 of helper/index.ts.  The older helper that
\* follows it in the file (lines 414-846) has the same getRegions,
\* areRegionsValid, deleteDestination and putDestination; it differs in the
\* handler around them, which catches per branch and ends in sendResponse.
\* what ec2.describeRegions returns when it succeeds
AwsRegions == <<"us-east-1", "us-west-2">>

\* the names a Regions property is made of: two regions, a name that is no
\* region, and the sentinel
RegionNames == {"us-east-1", "us-west-2", "mars-1", "All"}

\* properties.Role, properties.DataStream, properties.SpokeAccounts
Role == "role"
DataStream == "stream"
SpokeAccounts == {"111111111111", "222222222222"}

Absent == [exists |-> FALSE, roleArn |-> "", targetArn |-> "", policy |-> {}]

\* a destination left by an earlier deployment
OldDest == [exists |-> TRUE, roleArn |-> "oldRole", targetArn |-> "oldStream",
            policy |-> {"999999999999"}]

\* Array.prototype.includes
includes(arr, x) == \E k \in DOMAIN arr : arr[k] = x

\* only the first requested region is looked at
areRegionsValid_first(rs, awsRegions) ==
    rs = <<>> \/ includes(awsRegions, rs[1])

\* one region of the universe is enough
areRegionsValid_some(rs, awsRegions) ==
    \E k \in DOMAIN rs : includes(awsRegions, rs[k])

\* `regions.map((region) => { if (!awsRegions.includes(region)) throw ... })`
\* inside try: true when no region throws, false otherwise
areRegionsValid(rs, awsRegions) ==
    \A k \in DOMAIN rs : includes(awsRegions, rs[k])

\* every request is taken to ask for the whole universe
spokeRegions_universe(props, allRegions) == allRegions

\* the sentinel is not replaced
spokeRegions_noSentinel(props, allRegions) == props

\* `if (spokeRegions[0] === "All") spokeRegions = allRegions`
spokeRegions(props, allRegions) ==
    IF props # <<>> /\ props[1] = "All" THEN allRegions ELSE props

\* a Delete request deletes where the request's Regions say
deleteTargets_requested(props, allRegions) == spokeRegions(props, allRegions)

\* `if (requestType === "Delete") await deleteDestination(..., allRegions)`
deleteTargets(props, allRegions) == allRegions

\* the deletes are not waited for
deleteAll_race(d) ==
    IF d = <<>> \/ \E k \in DOMAIN d : d[k] \in {"ok", "failed"}
    THEN "resolved" ELSE "pending"

\* Promise.all without the per-region catch
deleteAll_failFast(d) ==
    IF \E k \in DOMAIN d : d[k] = "failed" THEN "rejected"
    ELSE IF \A k \in DOMAIN d : d[k] = "ok" THEN "resolved"
    ELSE "pending"

\* deleteDestination: `await Promise.allSettled(regions.map(...))`, each
\* delete with its own .then/.catch
deleteAll(d) ==
    IF \A k \in DOMAIN d : d[k] \in {"ok", "failed"} THEN "resolved" ELSE "pending"

\* the states of a region callback whose promise is rejected
CreateFailures == {"createFailed", "policyFailed"}

\* Promise.allSettled in place of Promise.all
createAll_settled(c) ==
    IF \A k \in DOMAIN c : c[k] \in {"done"} \cup CreateFailures
    THEN "resolved" ELSE "creating"

\* putDestination: `await Promise.all(regions.map(async ...))` inside try,
\* whose catch rethrows
createAll(c) ==
    IF \E k \in DOMAIN c : c[k] \in CreateFailures THEN "rejected"
    ELSE IF \A k \in DOMAIN c : c[k] = "done" THEN "resolved"
    ELSE "creating"

\* crudDestinations: the status it returns, "pending" while it awaits
crudDestinations(requestType, g, d, p) ==
    IF g = "rejected" THEN "FAILED"
    ELSE IF g # "resolved" THEN "pending"
    ELSE IF requestType = "Delete"
    THEN (IF d = "resolved" THEN "SUCCESS" ELSE IF d = "rejected" THEN "FAILED"
          ELSE "pending")
    ELSE (IF p = "resolved" THEN "SUCCESS" ELSE IF p = "rejected" THEN "FAILED"
          ELSE "pending")

\* the statement's principals are added to those of the policy in place
accessPolicy_merge(old, spokeAccnts) == old \cup spokeAccnts

\* putDestinationPolicy replaces the policy by one statement that allows
\* logs:PutSubscriptionFilter to Principal.AWS = spokeAccnts; the model keeps
\* the principals
accessPolicy(old, spokeAccnts) == spokeAccnts

\* the create call's error is swallowed and the policy call follows
afterCreate_always(ok) == "policy"

\* a region callback after `await cwLogs.putDestination(...).promise()`: it
\* goes on to putDestinationPolicy, or ends rejected
afterCreate(ok) == IF ok THEN "policy" ELSE "createFailed"

\* a response without Regions is taken as an empty list of regions
getRegions_lenient(out) == IF out = "error" THEN "rejected" ELSE "resolved"

\* getRegions: a failed ec2.describeRegions and a response without Regions
\* both end in the catch block, which throws
getRegions(out) == IF out = "ok" THEN "resolved" ELSE "rejected"

\* what getRegions and putDestination throw from their catch blocks
GetRegionsError == "error in getting regions"
PutDestinationError == "error in creating cw log destination"

\* the exception that crudDestinations catches, "" if none
caughtBy(g, p) ==
    IF g = "rejected" THEN GetRegionsError
    ELSE IF p = "rejected" THEN PutDestinationError
    ELSE ""

\* the caught exception's own message is put in the response
errorSummary_raw(requestType, e) == e

\* `Error: \`failed to ${requestType} CW destinations, please see in cw logs
\* for more details\``
errorSummary(requestType, e) ==
    "failed to " \o requestType
        \o " CW destinations, please see in cw logs for more details"

\* responseBody: throws on FAILED, returns the response otherwise
responseBody(st) ==
    IF st = "FAILED" THEN "rejected" ELSE IF st = "SUCCESS" THEN "returned"
    ELSE "pending"

Call(op, region) == [op |-> op, region |-> region]

callsIn(op, rs) == [k \in DOMAIN rs |-> Call(op, rs[k])]

\* the calls of awsCalls made to CloudWatch Logs
CwCalls == SelectSeq(awsCalls, LAMBDA c : c.op # "describeRegions")

HInit ==
    /\ RequestType \in {"Create", "Update", "Delete"}
    /\ Regions \in Seqs(RegionNames, 0, MaxRegions)
    /\ hst = "idle" /\ status = "pending" /\ gpc = "idle"
    /\ regions = <<>> /\ dpc = "idle" /\ ppc = "idle"
    /\ del = <<>> /\ cr = <<>> /\ awsCalls = <<>>
    /\ dest \in [RegionNames -> {Absent, OldDest}]
    /\ \A r \in RegionNames : ~includes(AwsRegions, r) => dest[r] = Absent
    /\ dest0 = dest
    /\ caught = "" /\ errMsg = "" /\ run = 1 /\ dest1 = dest
    /\ describeOut = "-"

\* the handler calls crudDestinations, which calls getRegions
HInvoke ==
    /\ hst = "idle"
    /\ hst' = "pending"
    /\ gpc' = "pending"
    /\ awsCalls' = Append(awsCalls, Call("describeRegions", "-"))
    /\ UNCHANGED <<RequestType, Regions, status, regions, dpc, ppc, del, cr,
                   dest, dest0, caught, errMsg, run, dest1, describeOut>>

\* ec2.describeRegions settles: getRegions rejects on an error and on a
\* response without Regions; otherwise crudDestinations goes on to
\* deleteDestination (Delete) or putDestination (Create, Update), up to
\* the delete calls
DescribeSettle(out) ==
    /\ gpc = "pending"
    /\ describeOut' = out
    /\ LET ok == getRegions(out) = "resolved"
           rs == IF RequestType = "Delete" THEN deleteTargets(Regions, AwsRegions)
                 ELSE spokeRegions(Regions, AwsRegions)
           valid == RequestType = "Delete" \/ areRegionsValid(rs, AwsRegions)
           go == ok /\ valid
           d == IF go THEN [k \in DOMAIN rs |-> "inflight"] ELSE <<>>
           dp == IF go THEN deleteAll(d) ELSE "idle"
           pp == IF ~ok \/ RequestType = "Delete" THEN "idle"
                 ELSE IF ~valid \/ dp = "rejected" THEN "rejected"
                 ELSE IF dp = "resolved" THEN createAll(<<>>)
                 ELSE "deleting"
       IN /\ gpc' = IF ok THEN "resolved" ELSE "rejected"
          /\ regions' = IF ok THEN rs ELSE <<>>
          /\ del' = d
          /\ dpc' = dp
          /\ ppc' = pp
          /\ awsCalls' = IF go THEN awsCalls \o callsIn("deleteDestination", rs)
                         ELSE awsCalls
          /\ status' = crudDestinations(RequestType, gpc', dpc', ppc')
          /\ hst' = responseBody(status')
          /\ caught' = caughtBy(gpc', ppc')
          /\ errMsg' = IF status' = "FAILED"
                       THEN errorSummary(RequestType, caught') ELSE errMsg
          /\ dest1' = IF hst' = "returned" /\ run = 1 THEN dest ELSE dest1
    /\ UNCHANGED <<RequestType, Regions, cr, dest, dest0, run>>

\* the part of the invocation that follows a settled promise
Continue ==
    /\ status' = IF status = "pending"
                 THEN crudDestinations(RequestType, gpc, dpc', ppc') ELSE status
    /\ hst' = IF hst = "pending" THEN responseBody(status') ELSE hst
    /\ caught' = IF status = "pending" THEN caughtBy(gpc, ppc') ELSE caught
    /\ errMsg' = IF status = "pending" /\ status' = "FAILED"
                 THEN errorSummary(RequestType, caught') ELSE errMsg
    /\ dest1' = IF hst = "pending" /\ hst' = "returned" /\ run = 1
                THEN dest' ELSE dest1
    /\ UNCHANGED <<run, describeOut>>

\* cwLogs.deleteDestination of entry k settles; it succeeds only where the
\* destination exists.  When deleteDestination resolves inside
\* putDestination, every region's putDestination call is made.
DeleteSettle(k, ok) ==
    /\ k \in DOMAIN del
    /\ del[k] = "inflight"
    /\ ok => dest[regions[k]].exists
    /\ del' = [del EXCEPT ![k] = IF ok THEN "ok" ELSE "failed"]
    /\ dest' = IF ok THEN [dest EXCEPT ![regions[k]] = Absent] ELSE dest
    /\ dpc' = IF dpc = "pending" THEN deleteAll(del') ELSE dpc
    /\ LET begin == ppc = "deleting" /\ dpc' = "resolved"
       IN /\ cr' = IF begin THEN [j \in DOMAIN regions |-> "create"] ELSE cr
          /\ awsCalls' = IF begin
                         THEN awsCalls \o callsIn("putDestination", regions)
                         ELSE awsCalls
          /\ ppc' = IF begin THEN createAll(cr')
                    ELSE IF ppc = "deleting" /\ dpc' = "rejected" THEN "rejected"
                    ELSE ppc
    /\ UNCHANGED <<RequestType, Regions, gpc, regions, dest0>>
    /\ Continue

\* cwLogs.putDestination of entry k settles; on success the destination
\* exists with the role and the stream (an existing one keeps its policy)
\* and the putDestinationPolicy call is made
CreateSettle(k, ok) ==
    /\ k \in DOMAIN cr
    /\ cr[k] = "create"
    /\ ok => includes(AwsRegions, regions[k])
    /\ cr' = [cr EXCEPT ![k] = afterCreate(ok)]
    /\ dest' = IF ok
               THEN [dest EXCEPT ![regions[k]] =
                        [exists |-> TRUE, roleArn |-> Role,
                         targetArn |-> DataStream, policy |-> @.policy]]
               ELSE dest
    /\ awsCalls' = IF cr'[k] = "policy"
                   THEN Append(awsCalls, Call("putDestinationPolicy", regions[k]))
                   ELSE awsCalls
    /\ ppc' = IF ppc = "creating" THEN createAll(cr') ELSE ppc
    /\ UNCHANGED <<RequestType, Regions, gpc, regions, dpc, del, dest0>>
    /\ Continue

\* cwLogs.putDestinationPolicy of entry k settles; it succeeds only where
\* the destination exists
PolicySettle(k, ok) ==
    /\ k \in DOMAIN cr
    /\ cr[k] = "policy"
    /\ ok => dest[regions[k]].exists
    /\ cr' = [cr EXCEPT ![k] = IF ok THEN "done" ELSE "policyFailed"]
    /\ dest' = IF ok
               THEN [dest EXCEPT ![regions[k]].policy = accessPolicy(@, SpokeAccounts)]
               ELSE dest
    /\ ppc' = IF ppc = "creating" THEN createAll(cr') ELSE ppc
    /\ UNCHANGED <<RequestType, Regions, gpc, regions, dpc, del, awsCalls, dest0>>
    /\ Continue

\* the same request is handled once more after the first invocation has
\* returned: a new invocation starts from the destinations the first one left
Reinvoke ==
    /\ hst = "returned"
    /\ run = 1
    /\ run' = 2
    /\ hst' = "idle" /\ status' = "pending" /\ gpc' = "idle"
    /\ regions' = <<>> /\ dpc' = "idle" /\ ppc' = "idle"
    /\ del' = <<>> /\ cr' = <<>> /\ awsCalls' = <<>>
    /\ dest0' = dest
    /\ caught' = "" /\ errMsg' = "" /\ describeOut' = "-"
    /\ UNCHANGED <<RequestType, Regions, dest, dest1>>

\* ------------------------------------------------------------------------
\* chunksArray on its own
\* ------------------------------------------------------------------------
CInit ==
    /\ cArr \in Seqs({"a", "b"}, 0, MaxArr)
    /\ cN \in 1..MaxN
    /\ cOut = <<>>
    /\ cDone = FALSE

ApplyChunks ==
    /\ ~cDone
    /\ cOut' = chunksArray(cArr, cN)
    /\ cDone' = TRUE
    /\ UNCHANGED <<cArr, cN>>

\* ------------------------------------------------------------------------
\* areRegionsValid alone
\* ------------------------------------------------------------------------
AInit ==
    /\ vRegions \in Seqs(RegionNames, 0, MaxRegions)
    /\ vAwsRegions \in Seqs({"us-east-1", "us-west-2"}, 0, MaxRegions)
    /\ vValid = FALSE
    /\ vDone = FALSE

\* the call returns; its arguments are as they were
ApplyValid ==
    /\ ~vDone
    /\ vValid' = areRegionsValid(vRegions, vAwsRegions)
    /\ vDone' = TRUE
    /\ UNCHANGED <<vRegions, vAwsRegions>>

\* ------------------------------------------------------------------------
\* Custom::CreateESServiceRole
\* ------------------------------------------------------------------------
\* the errors of iam.createServiceLinkedRole: InvalidInput is what IAM
\* answers when the role exists
IamErrors == {"InvalidInput", "AccessDenied", "ServiceFailure"}

\* every error of the IAM call fails the request
createESRole_strict(e) == IF e # "none" THEN "FAILED" ELSE "SUCCESS"

\* createESRole: status is "SUCCESS" unless the catch callback sees an error
\* whose name is not "InvalidInput"
createESRole(e) ==
    IF e # "none" /\ e # "InvalidInput" THEN "FAILED" ELSE "SUCCESS"

EInit ==
    /\ eRequestType \in {"Create", "Update", "Delete"}
    /\ epc = "idle" /\ eError = "-" /\ eStatus = "pending"
    /\ roleExists \in BOOLEAN
    /\ eHistory = <<>>

\* the handler's dispatch: a Create calls createESRole, which calls IAM; an
\* Update or a Delete falls through to the last return, SUCCESS
EInvoke ==
    /\ epc = "idle"
    /\ IF eRequestType = "Create"
       THEN epc' = "calling" /\ UNCHANGED <<eError, eStatus>>
       ELSE eError' = "-" /\ eStatus' = "SUCCESS" /\ epc' = responseBody(eStatus')
    /\ UNCHANGED <<eRequestType, roleExists, eHistory>>

\* iam.createServiceLinkedRole settles: it creates the role where there is
\* none, answers InvalidInput where there is one, or fails otherwise
ESettle(e) ==
    /\ epc = "calling"
    /\ e = "none" => ~roleExists
    /\ e = "InvalidInput" => roleExists
    /\ eError' = e
    /\ roleExists' = (roleExists \/ e = "none")
    /\ eStatus' = createESRole(e)
    /\ epc' = responseBody(eStatus')
    /\ UNCHANGED <<eRequestType, eHistory>>

\* the next request for the resource arrives
ENextRequest(t) ==
    /\ epc \in {"returned", "rejected"}
    /\ Len(eHistory) < MaxRequests - 1
    /\ eHistory' = Append(eHistory, [RequestType |-> eRequestType,
                                      error |-> eError, status |-> eStatus,
                                      outcome |-> epc])
    /\ eRequestType' = t
    /\ epc' = "idle" /\ eError' = "-" /\ eStatus' = "pending"
    /\ UNCHANGED roleExists

\* ------------------------------------------------------------------------
\* The helper's dispatch
\* ------------------------------------------------------------------------
ResourceTypes == {"Custom::CreateUUID", "Custom::CreateESServiceRole",
                  "Custom::LaunchData", "Custom::CWDestination", "Custom::Other"}

\* what uuidv4 may return
Uuids == {"uuid-a", "uuid-b"}

\* no response yet
NoResponse == [key |-> "", value |-> ""]

\* `Data: "no data"`
NoData == [key |-> "Data", value |-> "no data"]

\* a Custom::CreateUUID request of any type mints an identifier
branch_uuidAlways(resourceType, requestType, sendMetric) ==
    IF resourceType = "Custom::CreateUUID" THEN "uuid"
    ELSE IF resourceType = "Custom::CreateESServiceRole" /\ requestType = "Create"
    THEN "esrole"
    ELSE IF resourceType = "Custom::LaunchData" /\ sendMetric = "Yes" THEN "launch"
    ELSE IF resourceType = "Custom::CWDestination" THEN "cwdest"
    ELSE "default"

\* a Custom::LaunchData request reports whatever SEND_METRIC says
branch_launchAlways(resourceType, requestType, sendMetric) ==
    IF resourceType = "Custom::CreateUUID" /\ requestType = "Create" THEN "uuid"
    ELSE IF resourceType = "Custom::CreateESServiceRole" /\ requestType = "Create"
    THEN "esrole"
    ELSE IF resourceType = "Custom::LaunchData" THEN "launch"
    ELSE IF resourceType = "Custom::CWDestination" THEN "cwdest"
    ELSE "default"

\* the handler's chain of `if`s, each ending in a return; the last return
\* is the default
branch(resourceType, requestType, sendMetric) ==
    IF resourceType = "Custom::CreateUUID" /\ requestType = "Create" THEN "uuid"
    ELSE IF resourceType = "Custom::CreateESServiceRole" /\ requestType = "Create"
    THEN "esrole"
    ELSE IF resourceType = "Custom::LaunchData" /\ sendMetric = "Yes" THEN "launch"
    ELSE IF resourceType = "Custom::CWDestination" THEN "cwdest"
    ELSE "default"

\* how the POST of got(metricsEndpoint, ...) may settle
PostOutcomes == {"2xx", "non2xx", "networkError"}

\* the POST's failure leaves sendToAwsSolutionsEngineeringTeam
sendToAwsSolutionsEngineeringTeam_throws(out) ==
    IF out = "2xx" THEN "resolved" ELSE "rejected"

\* sendToAwsSolutionsEngineeringTeam: the await of got is in a try whose
\* catch logs; got rejects on a network error and on a non-2xx status
sendToAwsSolutionsEngineeringTeam(out) == "resolved"

DInit ==
    /\ dResourceType \in ResourceTypes
    /\ dRequestType \in {"Create", "Update", "Delete"}
    /\ dSendMetric \in {"Yes", "No"}
    /\ dEnvSet \in BOOLEAN
    /\ dst = "idle" /\ dCalls = <<>> /\ dStatus = "pending"
    /\ dData = NoResponse /\ dPost = "-" /\ dMinted = <<>>

\* the handler up to its first await, or to its return; u is what uuidv4
\* returns if asked.  sendDeploymentMetrics throws before any POST when
\* STACK or CLUSTER_SIZE is not set, and the handler does not catch it.
DInvoke(u) ==
    /\ dst = "idle"
    /\ LET b == branch(dResourceType, dRequestType, dSendMetric)
       IN /\ dMinted' = IF b = "uuid" THEN Append(dMinted, u) ELSE dMinted
          /\ dCalls' = IF b = "esrole" THEN <<"iam.createServiceLinkedRole">>
                       ELSE IF b = "launch" /\ dEnvSet THEN <<"metrics.POST">>
                       ELSE IF b = "cwdest" THEN <<"ec2.describeRegions">>
                       ELSE dCalls
          /\ dStatus' = IF b \in {"uuid", "default"} THEN "SUCCESS" ELSE dStatus
          /\ dData' = IF b = "uuid" THEN [key |-> "UUID", value |-> u]
                      ELSE IF b = "default" THEN NoData
                      ELSE dData
          /\ dst' = IF b \in {"uuid", "default"} THEN responseBody(dStatus')
                    ELSE IF b = "esrole" THEN "calling"
                    ELSE IF b = "launch" THEN (IF dEnvSet THEN "posting" ELSE "rejected")
                    ELSE "crud"
    /\ UNCHANGED <<dResourceType, dRequestType, dSendMetric, dEnvSet, dPost>>

\* the metrics POST settles; sendDeploymentMetrics returns {Data: metric}
\* with metric undefined, and the handler answers SUCCESS
DPostSettle(out) ==
    /\ dst = "posting"
    /\ dPost' = out
    /\ IF sendToAwsSolutionsEngineeringTeam(out) = "resolved"
       THEN /\ dStatus' = "SUCCESS"
            /\ dData' = [key |-> "Data", value |-> "undefined"]
            /\ dst' = responseBody(dStatus')
       ELSE /\ dst' = "rejected"
            /\ UNCHANGED <<dStatus, dData>>
    /\ UNCHANGED <<dResourceType, dRequestType, dSendMetric, dEnvSet, dCalls, dMinted>>

\* iam.createServiceLinkedRole settles
DIamSettle(e) ==
    /\ dst = "calling"
    /\ dStatus' = createESRole(e)
    /\ dData' = IF dStatus' = "FAILED"
                THEN [key |-> "Error",
                      value |-> "failed to create ES service linked role, please see in cw logs for more details"]
                ELSE NoData
    /\ dst' = responseBody(dStatus')
    /\ UNCHANGED <<dResourceType, dRequestType, dSendMetric, dEnvSet, dCalls,
                   dPost, dMinted>>

\* crudDestinations returns with the status st
DCrudSettle(st) ==
    /\ dst = "crud"
    /\ dStatus' = st
    /\ dData' = IF st = "FAILED"
                THEN [key |-> "Error", value |-> errorSummary(dRequestType, "")]
                ELSE NoData
    /\ dst' = responseBody(dStatus')
    /\ UNCHANGED <<dResourceType, dRequestType, dSendMetric, dEnvSet, dCalls,
                   dPost, dMinted>>

\* ------------------------------------------------------------------------
\* applyCfnNagSuppressRules
\* ------------------------------------------------------------------------
NagRules == [id : {"W1", "W2"}, reason : {"old reason", "new reason"}]

\* the positions of rules that hold the first rule of their id
firstOfId(rules) ==
    SelectSeq([k \in DOMAIN rules |-> k],
              LAMBDA k : \A j \in 1..(k - 1) : rules[j].id # rules[k].id)

\* the last rule of rules that has this id
lastOfId(rules, id) ==
    rules[CHOOSE k \in DOMAIN rules :
             /\ rules[k].id = id
             /\ \A j \in (k + 1)..Len(rules) : rules[j].id # id]

\* of the rules of one id the first is kept
uniqueRules_first(rules) ==
    [n \in DOMAIN firstOfId(rules) |-> rules[firstOfId(rules)[n]]]

\* `[...new Map(rules.map((rule) => [rule.id, rule])).values()]`: a Map keeps
\* its keys in the order they were first set, each with the value set last
uniqueRules(rules) ==
    [n \in DOMAIN firstOfId(rules) |->
        lastOfId(rules, rules[firstOfId(rules)[n]].id)]

\* the rules before uniqueRules: the existing ones, if the resource has the
\* cfn_nag metadata, then the given ones
mergedRules(has, existing, suppressions) ==
    IF has THEN existing \o suppressions ELSE suppressions

NInit ==
    /\ nagHas \in BOOLEAN
    /\ nagRules \in Seqs(NagRules, 0, MaxAdded - 1)
    /\ ~nagHas => nagRules = <<>>
    /\ nagHist = nagRules
    /\ nagCalls = 0

\* one call of applyCfnNagSuppressRules(resource, suppressions)
ApplyNag(suppressions) ==
    /\ nagCalls < MaxAdded
    /\ Len(nagHist) + Len(suppressions) <= MaxAdded
    /\ nagRules' = uniqueRules(mergedRules(nagHas, nagRules, suppressions))
    /\ nagHas' = TRUE
    /\ nagHist' = nagHist \o suppressions
    /\ nagCalls' = nagCalls + 1

\* ------------------------------------------------------------------------
\* The auth custom-resource handler
\* ------------------------------------------------------------------------
\* what the handler of auth/index.js does with a request before it returns:
\* "respond" (sendResponse SUCCESS), "es" (updateElasticsearchDomainConfig)
authFirst_uuid(requestType, resource) ==
    IF requestType \in {"Delete", "Update"} THEN "respond"
    ELSE IF resource = "UUID" THEN "respond"
    ELSE "es"

\* what the handler that manages the user pool domain does with a request
\* before it returns: "cognito" (deleteUserPoolDomain or
\* createUserPoolDomain), or "nothing": it has no branch for an Update
authFirst_domain(requestType) ==
    IF requestType \in {"Delete", "Create"} THEN "cognito" ELSE "nothing"

UInit ==
    /\ authBuild \in {"uuid", "domain"}
    /\ aRequestType \in {"Create", "Update", "Delete"}
    /\ aResource \in {"UUID", "ES"}
    /\ apc = "idle" /\ aCalls = <<>> /\ aResponses = <<>> /\ aPut = "-"
    /\ aHistory = <<>>

\* the handler, up to its return
UInvoke ==
    /\ apc = "idle"
    /\ LET first == IF authBuild = "uuid"
                    THEN authFirst_uuid(aRequestType, aResource)
                    ELSE authFirst_domain(aRequestType)
       IN /\ apc' = CASE first = "respond" -> "sending"
                      [] first = "nothing" -> "returned"
                      [] OTHER -> first
          /\ aResponses' = IF first = "respond" THEN <<"SUCCESS">> ELSE aResponses
          /\ aCalls' = CASE first = "es" -> <<"updateElasticsearchDomainConfig">>
                         [] first = "cognito" /\ aRequestType = "Delete"
                               -> <<"deleteUserPoolDomain">>
                         [] first = "cognito" /\ aRequestType # "Delete"
                               -> <<"createUserPoolDomain">>
                         [] OTHER -> aCalls
    /\ UNCHANGED <<authBuild, aRequestType, aResource, aPut, aHistory>>

\* the callback of deleteUserPoolDomain or of createUserPoolDomain
UCognitoSettle(ok) ==
    /\ apc = "cognito"
    /\ IF aRequestType = "Create" /\ ok
       THEN /\ apc' = "es"
            /\ aCalls' = Append(aCalls, "updateElasticsearchDomainConfig")
            /\ UNCHANGED aResponses
       ELSE /\ apc' = "sending"
            /\ aResponses' = Append(aResponses, IF ok THEN "SUCCESS" ELSE "FAILED")
            /\ UNCHANGED aCalls
    /\ UNCHANGED <<authBuild, aRequestType, aResource, aPut, aHistory>>

\* the callback of updateElasticsearchDomainConfig
UEsSettle(ok) ==
    /\ apc = "es"
    /\ apc' = "sending"
    /\ aResponses' = Append(aResponses, IF ok THEN "SUCCESS" ELSE "FAILED")
    /\ UNCHANGED <<authBuild, aRequestType, aResource, aCalls, aPut, aHistory>>

\* sendResponse's PUT gets an answer or an error event: context.done()
UPutSettle(out) ==
    /\ apc = "sending"
    /\ aPut' = out
    /\ apc' = "done"
    /\ UNCHANGED <<authBuild, aRequestType, aResource, aCalls, aResponses, aHistory>>

\* the next request arrives
UNextRequest(t, r) ==
    /\ apc \in {"done", "returned"}
    /\ Len(aHistory) < MaxRequests - 1
    /\ aHistory' = Append(aHistory, [RequestType |-> aRequestType,
                                      responses |-> aResponses])
    /\ aRequestType' = t
    /\ aResource' = r
    /\ apc' = "idle" /\ aCalls' = <<>> /\ aResponses' = <<>> /\ aPut' = "-"
    /\ UNCHANGED authBuild

\* ------------------------------------------------------------------------
\* transform and buildSource
\* ------------------------------------------------------------------------
\* the character at position i of a string, as a string
Char(str, i) == SubSeq(str, i, i)

DecDigits == "0123456789"
HexDigits == "0123456789abcdef"

IsDigit(c, digits) == \E i \in 1..Len(digits) : Char(digits, i) = c

DigitVal(c, digits) == (CHOOSE i \in 1..Len(digits) : Char(digits, i) = c) - 1

AllDigits(str, digits) ==
    str # "" /\ \A i \in 1..Len(str) : IsDigit(Char(str, i), digits)

\* the value of a string of digits in the base that digits has
RECURSIVE digitsValue(_, _)
digitsValue(str, digits) ==
    IF str = "" THEN 0
    ELSE digitsValue(SubSeq(str, 1, Len(str) - 1), digits) * Len(digits)
            + DigitVal(Char(str, Len(str)), digits)

\* a JavaScript number: NaN, or an integer (the strings of the model hold
\* no fraction, exponent or sign)
NaN == [nan |-> TRUE, v |-> 0]
Number(n) == [nan |-> FALSE, v |-> n]

RECURSIVE trimStart(_)
trimStart(str) ==
    IF str # "" /\ Char(str, 1) = " " THEN trimStart(SubSeq(str, 2, Len(str)))
    ELSE str

RECURSIVE trimEnd(_)
trimEnd(str) ==
    IF str # "" /\ Char(str, Len(str)) = " "
    THEN trimEnd(SubSeq(str, 1, Len(str) - 1))
    ELSE str

\* the length of the longest prefix of str made of decimal digits
RECURSIVE digitPrefix(_)
digitPrefix(str) ==
    IF str # "" /\ IsDigit(Char(str, 1), DecDigits)
    THEN 1 + digitPrefix(SubSeq(str, 2, Len(str)))
    ELSE 0

\* parseFloat: skips leading white space and reads the longest numeric
\* prefix; NaN if there is none
parseFloat(str) ==
    LET t == trimStart(str)
        n == digitPrefix(t)
    IN IF n = 0 THEN NaN ELSE Number(digitsValue(SubSeq(t, 1, n), DecDigits))

\* the number is read as parseFloat reads it
ToNumber_prefix(str) == parseFloat(str)

\* ToNumber, as isFinite(n) and `1 * n` apply it to a string: the whole
\* trimmed string must be a numeric literal, decimal or 0x hexadecimal; the
\* empty string is 0
ToNumber(str) ==
    LET t == trimEnd(trimStart(str))
    IN IF t = "" THEN Number(0)
       ELSE IF AllDigits(t, DecDigits) THEN Number(digitsValue(t, DecDigits))
       ELSE IF Len(t) > 2 /\ SubSeq(t, 1, 2) = "0x"
                /\ AllDigits(SubSeq(t, 3, Len(t)), HexDigits)
       THEN Number(digitsValue(SubSeq(t, 3, Len(t)), HexDigits))
       ELSE NaN

\* `!isNaN(parseFloat(n)) && isFinite(n)`
isNumeric(n) == ~parseFloat(n).nan /\ ~ToNumber(n).nan

\* `"" + n` for a number that is no NaN and not negative
RECURSIVE numToString(_)
numToString(n) ==
    IF n < 10 THEN Char(DecDigits, n + 1)
    ELSE numToString(n \div 10) \o Char(DecDigits, (n % 10) + 1)

\* the values of a document's fields
Undef == [t |-> "undef", s |-> "", v |-> 0]
Num(n) == [t |-> "num", s |-> "", v |-> n]
Str(str) == [t |-> "str", s |-> str, v |-> 0]
Obj(json) == [t |-> "obj", s |-> json, v |-> 0]

\* the keys that extractedFields may hold
FieldKeys == {"bytes", "account_id", "requestParameters", "id"}

\* the keys that transform sets last
MetaKeys == {"timestamp", "id", "type", "@message", "@owner", "@log_group",
             "@log_stream"}

DocKeys == FieldKeys \cup {"$" \o k : k \in FieldKeys} \cup MetaKeys
              \cup {"responseElements", "apiVersion"}

EmptyDoc == [k \in DocKeys |-> Undef]

\* the JSON object texts of the model, and what JSON.parse makes of them
JsonTexts ==
    {"{\"a\":1}",
     "{\"id\":\"evil\",\"type\":\"x\",\"@owner\":\"evil\",\"timestamp\":1,\"bytes\":5,\"apiVersion\":2,\"responseElements\":{\"a\":1}}"}

JSONparse(json) ==
    IF json = "{\"a\":1}" THEN EmptyDoc
    ELSE [k \in DocKeys |->
            CASE k = "id" -> Str("evil")
              [] k = "type" -> Str("x")
              [] k = "@owner" -> Str("evil")
              [] k = "timestamp" -> Num(1)
              [] k = "bytes" -> Num(5)
              [] k = "apiVersion" -> Num(2)
              [] k = "responseElements" -> Obj("{\"a\":1}")
              [] OTHER -> Undef]

\* String.prototype.indexOf for one character, counted from 1; 0 if absent
indexOf(str, c) ==
    IF \E i \in 1..Len(str) : Char(str, i) = c
    THEN CHOOSE i \in 1..Len(str) :
            Char(str, i) = c /\ \A j \in 1..(i - 1) : Char(str, j) # c
    ELSE 0

isValidJson(message) == message \in JsonTexts

\* extractJson: the substring from the first "{" if it parses, "" for null
extractJson(message) ==
    LET jsonStart == indexOf(message, "{")
        jsonSubString == SubSeq(message, jsonStart, Len(message))
    IN IF jsonStart = 0 THEN ""
       ELSE IF isValidJson(jsonSubString) THEN jsonSubString ELSE ""

\* buildSource over extractedFields: a falsy value is skipped, a numeric one
\* is stored as `1 * value`, another one as it is, with its JSON under "$"+key
sourceOfFields(fields) ==
    [k \in DocKeys |->
        IF k \in FieldKeys /\ fields[k].has /\ fields[k].raw # ""
        THEN IF isNumeric(fields[k].raw) THEN Num(ToNumber(fields[k].raw).v)
             ELSE Str(fields[k].raw)
        ELSE IF \E f \in FieldKeys :
                   /\ k = "$" \o f
                   /\ fields[f].has /\ fields[f].raw # ""
                   /\ ~isNumeric(fields[f].raw)
                   /\ extractJson(fields[f].raw) # ""
        THEN Obj(extractJson(fields[CHOOSE f \in FieldKeys : k = "$" \o f].raw))
        ELSE Undef]

buildSource(message, extracted, fields) ==
    IF extracted THEN sourceOfFields(fields)
    ELSE IF extractJson(message) # "" THEN JSONparse(extractJson(message))
    ELSE EmptyDoc

\* JSON.stringify of a string: quoted, its quotes escaped
RECURSIVE escaped(_)
escaped(str) ==
    IF str = "" THEN ""
    ELSE (IF Char(str, 1) = "\"" THEN "\\\"" ELSE Char(str, 1))
            \o escaped(SubSeq(str, 2, Len(str)))

\* JSON.stringify(value)
stringify(val) ==
    CASE val.t = "num" -> numToString(val.v)
      [] val.t = "str" -> "\"" \o escaped(val.s) \o "\""
      [] OTHER -> val.s

\* `"" + value`
toStr(val) ==
    CASE val.t = "num" -> numToString(val.v)
      [] val.t = "str" -> val.s
      [] OTHER -> "[object Object]"

\* the four `if (key in source)` lines of transform
coerced(source) ==
    [k \in DocKeys |->
        IF source[k] = Undef THEN Undef
        ELSE IF k \in {"requestParameters", "responseElements"}
        THEN Str(stringify(source[k]))
        ELSE IF k \in {"apiVersion", "account_id"} THEN Str(toStr(source[k]))
        ELSE source[k]]

\* two digits, three digits, four digits
pad(n, width) ==
    LET str == numToString(n)
    IN SubSeq("0000", 1, width - Len(str)) \o str

\* Date.prototype.toISOString of the instant ts.s seconds and ts.ms
\* milliseconds after the epoch: the proleptic Gregorian date of the day,
\* then the time of day
toISOString(ts) ==
    LET z == (ts.s \div 86400) + 719468
        era == z \div 146097
        doe == z - era * 146097
        yoe == (doe - doe \div 1460 + doe \div 36524 - doe \div 146096) \div 365
        doy == doe - (365 * yoe + yoe \div 4 - yoe \div 100)
        mp == (5 * doy + 2) \div 153
        d == doy - (153 * mp + 2) \div 5 + 1
        m == IF mp < 10 THEN mp + 3 ELSE mp - 9
        y == yoe + era * 400 + (IF m <= 2 THEN 1 ELSE 0)
        sod == ts.s % 86400
    IN pad(y, 4) \o "-" \o pad(m, 2) \o "-" \o pad(d, 2) \o "T"
          \o pad(sod \div 3600, 2) \o ":" \o pad((sod % 3600) \div 60, 2) \o ":"
          \o pad(sod % 60, 2) \o "." \o pad(ts.ms, 3) \o "Z"

\* the payload's logGroup and logStream
LogGroup == "testLogGroup"
LogStream == "testLogStream"

\* a key that the source has keeps the source's value
withMetadata_keep(source, meta) ==
    [k \in DocKeys |-> IF source[k] # Undef THEN source[k] ELSE meta[k]]

\* the seven assignments that end transform
withMetadata(source, meta) ==
    [k \in DocKeys |-> IF k \in MetaKeys THEN meta[k] ELSE source[k]]

metadata(ts, id, message, owner, logGroup, logStream) ==
    [k \in DocKeys |->
        CASE k = "timestamp" -> Str(toISOString(ts))
          [] k = "id" -> Str(id)
          [] k = "type" -> Str("CloudWatchLogs")
          [] k = "@message" -> Str(message)
          [] k = "@owner" -> Str(owner)
          [] k = "@log_group" -> Str(logGroup)
          [] k = "@log_stream" -> Str(logStream)
          [] OTHER -> Undef]

transform(message, extracted, fields, ts, id, owner, logGroup, logStream) ==
    withMetadata(coerced(buildSource(message, extracted, fields)),
                 metadata(ts, id, message, owner, logGroup, logStream))

\* the values of extractedFields: numeric strings, an empty string, a word,
\* a text with JSON in it, a text with a brace and no JSON
RawValues == {"76", "1234", "0x10", " 12 ", "", "OK", "k={\"a\":1}", "12abc {"}

NoField == [has |-> FALSE, raw |-> ""]

Messages ==
    {"[ERROR] First test message",
     "x {\"id\":\"evil\",\"type\":\"x\",\"@owner\":\"evil\",\"timestamp\":1,\"bytes\":5,\"apiVersion\":2,\"responseElements\":{\"a\":1}}",
     "{oops"}

\* 1970-01-01T00:00:00.000Z, 2015-08-24T19:03:07.000Z and .001Z,
\* 2024-02-29T23:59:59.999Z
Timestamps ==
    {[s |-> 0, ms |-> 0], [s |-> 1440442987, ms |-> 0],
     [s |-> 1440442987, ms |-> 1], [s |-> 1709251199, ms |-> 999]}

XInit ==
    /\ xMessage \in Messages
    /\ xExtracted \in BOOLEAN
    /\ xFields \in [FieldKeys -> {NoField} \cup [has : {TRUE}, raw : RawValues]]
    /\ Cardinality({k \in FieldKeys : xFields[k].has}) <= MaxFields
    /\ ~xExtracted => \A k \in FieldKeys : ~xFields[k].has
    /\ xTimestamp \in Timestamps
    /\ xId \in {"eventId1"}
    /\ xOwner \in {"xxxxx", "123456789123"}
    /\ xDoc = EmptyDoc
    /\ xDone = FALSE

ApplyTransform ==
    /\ ~xDone
    /\ xDoc' = transform(xMessage, xExtracted, xFields, xTimestamp, xId, xOwner,
                         LogGroup, LogStream)
    /\ xDone' = TRUE
    /\ UNCHANGED <<xMessage, xExtracted, xFields, xTimestamp, xId, xOwner>>

\* ------------------------------------------------------------------------
\* Specifications
\* ------------------------------------------------------------------------
TIdle ==
    /\ build = "chunked" /\ SEND_METRIC = "No" /\ Records = <<>>
    /\ hpc = "idle" /\ started = 0
    /\ task = <<>> /\ gunzips = <<>> /\ docs = <<>> /\ batches = <<>>
    /\ bst = <<>> /\ sinkCalls = <<>> /\ metricCalls = <<>> /\ logged = {}
    /\ metricErrors = {}

CIdle == cArr = <<>> /\ cN = 1 /\ cOut = <<>> /\ cDone = FALSE

HIdle ==
    /\ RequestType = "Create" /\ Regions = <<>>
    /\ hst = "idle" /\ status = "pending" /\ gpc = "idle"
    /\ regions = <<>> /\ dpc = "idle" /\ ppc = "idle"
    /\ del = <<>> /\ cr = <<>> /\ awsCalls = <<>>
    /\ dest = [r \in RegionNames |-> Absent]
    /\ dest0 = dest
    /\ caught = "" /\ errMsg = "" /\ run = 1 /\ dest1 = dest
    /\ describeOut = "-"

AIdle == vRegions = <<>> /\ vAwsRegions = <<>> /\ vValid = FALSE /\ vDone = FALSE

EIdle ==
    /\ eRequestType = "Create" /\ epc = "idle" /\ eError = "-"
    /\ eStatus = "pending" /\ roleExists = FALSE /\ eHistory = <<>>

DIdle ==
    /\ dResourceType = "Custom::CreateUUID" /\ dRequestType = "Create"
    /\ dSendMetric = "No" /\ dEnvSet = TRUE /\ dst = "idle" /\ dCalls = <<>>
    /\ dStatus = "pending" /\ dData = NoResponse /\ dPost = "-" /\ dMinted = <<>>

XIdle ==
    /\ xMessage = "" /\ xExtracted = FALSE /\ xFields = <<>>
    /\ xTimestamp = [s |-> 0, ms |-> 0] /\ xId = "" /\ xOwner = ""
    /\ xDoc = <<>> /\ xDone = FALSE

NIdle == nagHas = FALSE /\ nagRules = <<>> /\ nagHist = <<>> /\ nagCalls = 0

UIdle ==
    /\ authBuild = "uuid" /\ aRequestType = "Create" /\ aResource = "UUID"
    /\ apc = "idle" /\ aCalls = <<>> /\ aResponses = <<>> /\ aPut = "-"
    /\ aHistory = <<>>

\* one invocation of the transformer
Init == TInit /\ CIdle /\ HIdle /\ AIdle /\ EIdle
    /\ DIdle /\ XIdle /\ NIdle /\ UIdle

Next ==
    \/ Invoke /\ UNCHANGED exceptT
    \/ \E i \in RecIdx : StartRecord(i) /\ UNCHANGED exceptT
    \/ \E i \in RecIdx : ResumeAfterChunks(i) /\ UNCHANGED exceptT
    \/ \E i \in RecIdx : \E j \in DOMAIN bst[i], ok \in BOOLEAN :
          SinkSettle(i, j, ok) /\ UNCHANGED exceptT
    \/ \E i \in RecIdx : \E j \in DOMAIN bst[i], ok \in BOOLEAN :
          MetricSettle(i, j, ok) /\ UNCHANGED exceptT

Spec == Init /\ [][Next]_vars

\* one call of chunksArray
InitChunks == CInit /\ TIdle /\ HIdle /\ AIdle /\ EIdle
    /\ DIdle /\ XIdle /\ NIdle /\ UIdle

NextChunks == ApplyChunks /\ UNCHANGED exceptC

SpecChunks == InitChunks /\ [][NextChunks]_vars

\* one invocation of the helper for Custom::CWDestination
InitHelper == HInit /\ TIdle /\ CIdle /\ AIdle /\ EIdle
    /\ DIdle /\ XIdle /\ NIdle /\ UIdle

NextHelper ==
    \/ HInvoke /\ UNCHANGED exceptH
    \/ \E out \in {"ok", "error", "noRegions"} :
          DescribeSettle(out) /\ UNCHANGED exceptH
    \/ \E k \in DOMAIN del, ok \in BOOLEAN :
          DeleteSettle(k, ok) /\ UNCHANGED exceptH
    \/ \E k \in DOMAIN cr, ok \in BOOLEAN :
          CreateSettle(k, ok) /\ UNCHANGED exceptH
    \/ \E k \in DOMAIN cr, ok \in BOOLEAN :
          PolicySettle(k, ok) /\ UNCHANGED exceptH

SpecHelper == InitHelper /\ [][NextHelper]_vars

\* a Custom::CWDestination request handled twice in succession
InitTwice == HInit /\ TIdle /\ CIdle /\ AIdle /\ EIdle
    /\ DIdle /\ XIdle /\ NIdle /\ UIdle

NextTwice ==
    \/ NextHelper
    \/ Reinvoke /\ UNCHANGED exceptH

SpecTwice == InitTwice /\ [][NextTwice]_vars

\* one call of areRegionsValid
InitValid == AInit /\ TIdle /\ CIdle /\ HIdle /\ EIdle
    /\ DIdle /\ XIdle /\ NIdle /\ UIdle

NextValid == ApplyValid /\ UNCHANGED exceptA

SpecValid == InitValid /\ [][NextValid]_vars

\* consecutive Custom::CreateESServiceRole requests
InitRole == EInit /\ TIdle /\ CIdle /\ HIdle /\ AIdle
    /\ DIdle /\ XIdle /\ NIdle /\ UIdle

NextRole ==
    \/ EInvoke /\ UNCHANGED exceptE
    \/ \E e \in {"none"} \cup IamErrors :
          ESettle(e) /\ UNCHANGED exceptE
    \/ \E t \in {"Create", "Update", "Delete"} :
          ENextRequest(t) /\ UNCHANGED exceptE

SpecRole == InitRole /\ [][NextRole]_vars

\* one request of any resource type handled by the helper
InitDispatch == DInit /\ TIdle /\ CIdle /\ HIdle /\ AIdle /\ EIdle
    /\ XIdle /\ NIdle /\ UIdle

NextDispatch ==
    \/ \E u \in Uuids : DInvoke(u) /\ UNCHANGED exceptD
    \/ \E out \in PostOutcomes : DPostSettle(out) /\ UNCHANGED exceptD
    \/ \E e \in {"none"} \cup IamErrors : DIamSettle(e) /\ UNCHANGED exceptD
    \/ \E st \in {"SUCCESS", "FAILED"} : DCrudSettle(st) /\ UNCHANGED exceptD

SpecDispatch == InitDispatch /\ [][NextDispatch]_vars

\* calls of applyCfnNagSuppressRules on one resource
InitNag == NInit /\ TIdle /\ CIdle /\ HIdle /\ AIdle /\ EIdle
    /\ DIdle /\ XIdle /\ UIdle

NextNag ==
    \E suppressions \in Seqs(NagRules, 0, MaxAdded) :
        ApplyNag(suppressions) /\ UNCHANGED exceptN

SpecNag == InitNag /\ [][NextNag]_vars

\* consecutive requests to the auth custom-resource handler
InitAuth == UInit /\ TIdle /\ CIdle /\ HIdle /\ AIdle /\ EIdle
    /\ DIdle /\ XIdle /\ NIdle

NextAuth ==
    \/ UInvoke /\ UNCHANGED exceptU
    \/ \E ok \in BOOLEAN : UCognitoSettle(ok) /\ UNCHANGED exceptU
    \/ \E ok \in BOOLEAN : UEsSettle(ok) /\ UNCHANGED exceptU
    \/ \E out \in {"answered", "error"} : UPutSettle(out) /\ UNCHANGED exceptU
    \/ \E t \in {"Create", "Update", "Delete"}, r \in {"UUID", "ES"} :
          UNextRequest(t, r) /\ UNCHANGED exceptU

SpecAuth == InitAuth /\ [][NextAuth]_vars

\* one call of transform
InitTransform == XInit /\ TIdle /\ CIdle /\ HIdle /\ AIdle /\ EIdle
    /\ DIdle /\ NIdle /\ UIdle

NextTransform == ApplyTransform /\ UNCHANGED exceptX

SpecTransform == InitTransform /\ [][NextTransform]_vars

\* ------------------------------------------------------------------------
\* Properties of the transformer
\* ------------------------------------------------------------------------
\* the putRecordBatch calls made for record i, in order
CallsOf(i) == SelectSeq(sinkCalls, LAMBDA c : c.rec = i)

\* the documents of record i that have been handed to the sink, in order
Dispatched(i) == Flatten([k \in 1..Len(CallsOf(i)) |-> CallsOf(i)[k].Records])

\* record i has been handed to putRecords
Sending(i) == task[i] = "awaitSends" \/ bst[i] # <<>>

\* C1: every putRecordBatch call carries at most 499 documents, and a
\* DATA_MESSAGE record with more than 499 documents is sent in more than one
\* call.
C1_SinkCallsAtMostBatchSize ==
    /\ \A c \in 1..Len(sinkCalls) : Len(sinkCalls[c].Records) <= BatchSize
    /\ \A i \in RecIdx :
          (ValidData(Records[i]) /\ Records[i].n > BatchSize /\ Sending(i))
          => Len(CallsOf(i)) > 1

\* C1 holds of the handler that calls chunksArray.
C1_ChunkedBuild == build = "chunked" => C1_SinkCallsAtMostBatchSize

\* C2: the chunks of chunksArray(arr, n), concatenated in order, are arr;
\* no chunk is empty; there are ceil(len(arr)/n) of them.
C2_ChunksPartition ==
    cDone =>
        /\ Flatten(cOut) = cArr
        /\ \A k \in 1..Len(cOut) : cOut[k] # <<>>
        /\ Len(cOut) = CeilDiv(Len(cArr), cN)

C2_Witness ==
    cDone /\ Len(cOut) >= 2 /\ Len(cArr) % cN # 0

\* no send and no metric report of the invocation is still under way
NothingInFlight ==
    /\ hpc \notin {"idle", "mapping"}
    /\ \A i \in RecIdx :
          /\ task[i] \notin {"notstarted", "awaitChunks"}
          /\ \A j \in DOMAIN bst[i] : bst[i][j] \in {"done", "failed"}

\* C3: the handler's promise never rejects and no record callback ends with
\* an exception, whichever records fail to decode, parse, shape or send; once
\* every send has settled the promise is resolved.
C3_HandlerNeverThrows ==
    /\ hpc # "rejected"
    /\ \A i \in RecIdx : task[i] # "rejected"
    /\ NothingInFlight => hpc = "resolved"

C3_Witness ==
    /\ hpc = "resolved"
    /\ \E i \in RecIdx : <<i, "error in decompressing data">> \in logged
    /\ \E i \in RecIdx : <<i, "putRecordBatch failed">> \in logged

\* record i failed: in its decoding, parsing or shaping, or in a send
Failed(i) == \E e \in logged : e[1] = i

\* C4: once the callbacks have been started and resumed, every document of
\* every valid DATA_MESSAGE record has been handed to the sink, whatever
\* happened to the other records.
C4_RecordIndependence ==
    Quiet =>
        \A k \in RecIdx :
            ValidData(Records[k])
            => Dispatched(k) = createRecordsFromEvents(Records[k].n)

C4_Witness ==
    /\ Quiet
    /\ \E i, k \in RecIdx :
          /\ i < k
          /\ Failed(i)
          /\ ValidData(Records[k])
          /\ Records[k].n > BatchSize
          /\ Dispatched(k) = createRecordsFromEvents(Records[k].n)

ControlMessage(r) == r.gzip /\ r.json /\ r.messageType = "CONTROL_MESSAGE"

\* C5: a CONTROL_MESSAGE record builds no document, makes no sink call and
\* no metric report, logs no error, and its callback returns normally.
C5_ControlMessageSkipped ==
    \A i \in RecIdx :
        ControlMessage(Records[i]) =>
            /\ docs[i] = <<>>
            /\ CallsOf(i) = <<>>
            /\ metricCalls[i] = <<>>
            /\ ~Failed(i)
            /\ started >= i => task[i] = "fulfilled"

C5_Witness ==
    /\ hpc = "resolved"
    /\ SEND_METRIC = "Yes"
    /\ \E i \in RecIdx : ControlMessage(Records[i]) /\ task[i] = "fulfilled"
    /\ \E k \in RecIdx : metricCalls[k] # <<>>

\* C6: a record that fails to gunzip is gunzipped once, builds no document,
\* makes no sink call and no metric report; the failure is logged and the
\* callback ends normally.
C6_DecompressionFailureSkipsRecord ==
    \A i \in RecIdx :
        /\ gunzips[i] <= 1
        /\ (~Records[i].gzip /\ started >= i) =>
              /\ gunzips[i] = 1
              /\ docs[i] = <<>>
              /\ CallsOf(i) = <<>>
              /\ metricCalls[i] = <<>>
              /\ <<i, "error in decompressing data">> \in logged
              /\ task[i] = "fulfilled"

C6_Witness ==
    /\ hpc = "resolved"
    /\ \E i \in RecIdx : ~Records[i].gzip /\ gunzips[i] = 1
    /\ sinkCalls # <<>>

\* ------------------------------------------------------------------------
\* Properties of the helper
\* ------------------------------------------------------------------------
\* the list handed to putDestination names a region outside the universe
NamesInvalidRegion ==
    /\ RequestType # "Delete"
    /\ gpc = "resolved"
    /\ \E k \in DOMAIN regions : \A u \in DOMAIN AwsRegions : AwsRegions[u] # regions[k]

\* C7: when a requested region is not in the universe, putDestination
\* rejects, no call is made to CloudWatch Logs in any region and every
\* region's destination is as it was.
C7_InvalidRegionsRejected ==
    NamesInvalidRegion =>
        /\ ppc = "rejected"
        /\ hst = "rejected"
        /\ CwCalls = <<>>
        /\ dest = dest0

C7_Witness ==
    /\ NamesInvalidRegion
    /\ ppc = "rejected"
    /\ \E k \in DOMAIN regions : includes(AwsRegions, regions[k])
                                  /\ dest0[regions[k]].exists

\* the positions of awsCalls that hold a call of operation op
CallsAt(op) == {c \in DOMAIN awsCalls : awsCalls[c].op = op}

\* C8: while a delete call of putDestination is under way no create call
\* has been made in any region, and every delete call was issued before
\* every create call.
C8_DeleteBeforeCreate ==
    /\ (cr # <<>> \/ CallsAt("putDestination") # {})
          => \A k \in DOMAIN del : del[k] \in {"ok", "failed"}
    /\ \A d \in CallsAt("deleteDestination"), c \in CallsAt("putDestination") : d < c

C8_Witness ==
    /\ \E k \in DOMAIN cr : cr[k] = "done"
    /\ \E k \in DOMAIN del : del[k] = "ok"
    /\ \E k \in DOMAIN del : del[k] = "failed"

\* C9: deleteDestination issues a delete call in every region it is given,
\* in order; it never rejects, and it is resolved once every delete has
\* settled, whatever their outcomes; a Delete request then ends SUCCESS.
C9_DeleteSettlesAll ==
    /\ dpc # "rejected"
    /\ dpc # "idle" =>
          /\ DOMAIN del = DOMAIN regions
          /\ [k \in 1..Cardinality(CallsAt("deleteDestination")) |->
                 SelectSeq(awsCalls, LAMBDA c : c.op = "deleteDestination")[k].region]
             = regions
          /\ (\A k \in DOMAIN del : del[k] \in {"ok", "failed"}) => dpc = "resolved"
    /\ (RequestType = "Delete" /\ dpc = "resolved")
          => status = "SUCCESS" /\ hst = "returned"

C9_Witness ==
    /\ RequestType = "Delete"
    /\ hst = "returned"
    /\ \E k \in DOMAIN del : del[k] = "failed"
    /\ \E k \in DOMAIN del : del[k] = "ok" /\ dest0[regions[k]].exists
                              /\ ~dest[regions[k]].exists

\* C10: if the create call or the policy call of any requested region
\* fails, putDestination is rejected and the invocation ends FAILED; it is
\* resolved, and the invocation returns, only with both steps done in every
\* requested region.
C10_CreateFailFast ==
    RequestType # "Delete" =>
        /\ (\E k \in DOMAIN cr : cr[k] \in CreateFailures)
              => ppc = "rejected" /\ status = "FAILED" /\ hst = "rejected"
        /\ (ppc = "resolved" \/ hst = "returned")
              => /\ ppc = "resolved" /\ status = "SUCCESS"
                 /\ DOMAIN cr = DOMAIN regions
                 /\ \A k \in DOMAIN cr : cr[k] = "done"

C10_Witness ==
    /\ hst = "rejected"
    /\ Len(cr) >= 2
    /\ \E k \in DOMAIN cr :
          /\ cr[k] = "policyFailed"
          /\ \A j \in DOMAIN cr \ {k} : cr[j] = "done"

\* the invocation has nothing in flight in CloudWatch Logs
HSettled ==
    /\ \A k \in DOMAIN del : del[k] \in {"ok", "failed"}
    /\ \A k \in DOMAIN cr : cr[k] \in {"done"} \cup CreateFailures

\* region r holds the destination that this request asks for
HoldsNew(r) == dest[r].exists /\ dest[r].roleArn = Role /\ dest[r].targetArn = DataStream

\* C11: when putDestination has rejected because a region's create or
\* policy step failed, and every call has settled, the requested regions are
\* not in a mixed state: there are no two requested regions of which one
\* holds the destination made by this invocation and the other holds none,
\* and no requested region holds that destination without its access policy.
C11_NoMixedStateAfterFailure ==
    (/\ ppc = "rejected"
     /\ \E k \in DOMAIN cr : cr[k] \in CreateFailures
     /\ HSettled)
        => /\ ~\E k, j \in DOMAIN regions :
                  HoldsNew(regions[k]) /\ ~dest[regions[j]].exists
           /\ ~\E k \in DOMAIN regions :
                  HoldsNew(regions[k]) /\ dest[regions[k]].policy = {}

\* C12: when putDestination has succeeded twice in succession with the same
\* arguments, every region's destination (existence, role, target stream,
\* access policy) is what it was after the first run.
C12_PutDestinationIdempotent ==
    (RequestType # "Delete" /\ run = 2 /\ hst = "returned") => dest = dest1

C12_Witness ==
    /\ RequestType # "Delete" /\ run = 2 /\ hst = "returned"
    /\ Len(regions) = 2 /\ regions[1] # regions[2]
    /\ \E k \in DOMAIN del : del[k] = "ok"
    /\ \E k \in DOMAIN del : del[k] = "failed"

\* C13: a Create or Update whose Regions is the sentinel "All" hands
\* putDestination the whole universe, as a request that lists the universe
\* does: in both, the delete calls and the create calls are those of the
\* universe's regions, in the universe's order.
C13_AllMeansUniverse ==
    (/\ RequestType # "Delete"
     /\ Regions = <<"All">> \/ Regions = AwsRegions
     /\ gpc = "resolved")
        => /\ regions = AwsRegions
           /\ SelectSeq(awsCalls, LAMBDA c : c.op = "deleteDestination")
                 = callsIn("deleteDestination", AwsRegions)
           /\ cr # <<>> =>
                 SelectSeq(awsCalls, LAMBDA c : c.op = "putDestination")
                    = callsIn("putDestination", AwsRegions)

C13_Witness ==
    /\ RequestType = "Create"
    /\ Regions = <<"All">>
    /\ hst = "returned"
    /\ \A k \in DOMAIN AwsRegions : HoldsNew(AwsRegions[k])

\* C14: a Delete request makes a delete call in every region of the
\* universe, whatever its Regions property, and no create call and no
\* policy call.
C14_DeleteTargetsUniverse ==
    RequestType = "Delete" =>
        /\ CallsAt("putDestination") = {}
        /\ CallsAt("putDestinationPolicy") = {}
        /\ cr = <<>>
        /\ gpc = "resolved" =>
              /\ regions = AwsRegions
              /\ CwCalls = callsIn("deleteDestination", AwsRegions)

C14_Witness ==
    /\ RequestType = "Delete"
    /\ Regions = <<"mars-1">>
    /\ hst = "returned"
    /\ \A k \in DOMAIN del : del[k] = "ok"

\* C16: a region's policy call is made only once that region's create call
\* has succeeded (the region then holds the destination with the given role
\* and stream), there is one policy call per succeeded create and none for
\* a failed one; when putDestination has succeeded every requested region
\* holds the destination with the policy that allows exactly the given
\* accounts.
C16_PolicyAfterCreate ==
    /\ \A k \in DOMAIN cr : cr[k] = "policy" => HoldsNew(regions[k])
    /\ Cardinality(CallsAt("putDestinationPolicy"))
          = Cardinality({k \in DOMAIN cr : cr[k] \in {"policy", "done", "policyFailed"}})
    /\ \A c \in CallsAt("putDestinationPolicy") :
          \E d \in CallsAt("putDestination") :
              d < c /\ awsCalls[d].region = awsCalls[c].region
    /\ ppc = "resolved" =>
          \A k \in DOMAIN regions :
              dest[regions[k]] = [exists |-> TRUE, roleArn |-> Role,
                                  targetArn |-> DataStream, policy |-> SpokeAccounts]

C16_Witness ==
    /\ ppc = "resolved"
    /\ Len(regions) = 2
    /\ \E k \in DOMAIN regions : dest0[regions[k]] = OldDest /\ del[k] = "failed"
    /\ \E k \in DOMAIN regions : dest0[regions[k]] = Absent

\* C17: an invocation for Custom::CWDestination that caught an exception
\* ends FAILED and rejects with the summary made of the request type alone,
\* never with the caught exception's message; it returns a response only
\* when the status is SUCCESS.
C17_FixedFailureSummary ==
    /\ caught # "" <=> status = "FAILED"
    /\ status = "FAILED" <=> hst = "rejected"
    /\ hst = "rejected" =>
          /\ errMsg \in
                {"failed to Create CW destinations, please see in cw logs for more details",
                 "failed to Update CW destinations, please see in cw logs for more details",
                 "failed to Delete CW destinations, please see in cw logs for more details"}
          /\ \E n \in 1..(Len(errMsg) - Len(RequestType) + 1) :
                SubSeq(errMsg, n, n + Len(RequestType) - 1) = RequestType
          /\ errMsg # caught
    /\ hst = "returned" => status = "SUCCESS" /\ errMsg = ""

C17_Witness ==
    /\ hst = "rejected"
    /\ RequestType = "Update"
    /\ caught = PutDestinationError
    /\ \E k \in DOMAIN cr : cr[k] = "policyFailed"

\* C15: areRegionsValid returns true exactly when every requested region is
\* in the universe, so also for an empty request; the requested list is as
\* it was, no region removed.
C15_AreRegionsValidIff ==
    vDone =>
        /\ vValid <=> ({vRegions[k] : k \in DOMAIN vRegions}
                          \subseteq {vAwsRegions[k] : k \in DOMAIN vAwsRegions})
        /\ vRegions = <<>> => vValid

C15_Witness ==
    /\ vDone /\ ~vValid
    /\ Len(vRegions) = 2
    /\ includes(vAwsRegions, vRegions[1])
    /\ ~includes(vAwsRegions, vRegions[2])

\* the requests handled so far, the current one included once it has ended
EHandled ==
    IF epc \in {"returned", "rejected"}
    THEN Append(eHistory, [RequestType |-> eRequestType, error |-> eError,
                           status |-> eStatus, outcome |-> epc])
    ELSE eHistory

\* C18: a Create for Custom::CreateESServiceRole ends SUCCESS, and the
\* handler returns, when the IAM call succeeds or fails with InvalidInput;
\* it ends FAILED, and the handler rejects, on every other error; so of two
\* consecutive Creates without such an other error both end SUCCESS.
C18_ESRoleTolerant ==
    /\ \A n \in DOMAIN EHandled :
          EHandled[n].RequestType = "Create" =>
             /\ EHandled[n].error \in {"none", "InvalidInput"}
                   => EHandled[n].status = "SUCCESS" /\ EHandled[n].outcome = "returned"
             /\ EHandled[n].error \notin {"none", "InvalidInput"}
                   => EHandled[n].status = "FAILED" /\ EHandled[n].outcome = "rejected"
    /\ (/\ Len(EHandled) = 2
        /\ \A n \in 1..2 : /\ EHandled[n].RequestType = "Create"
                            /\ EHandled[n].error \notin {"AccessDenied", "ServiceFailure"})
          => \A n \in 1..2 : EHandled[n].status = "SUCCESS"

C18_Witness ==
    /\ Len(EHandled) = 2
    /\ EHandled[1].RequestType = "Create" /\ EHandled[1].error = "none"
    /\ EHandled[2].RequestType = "Create" /\ EHandled[2].error = "InvalidInput"
    /\ EHandled[2].status = "SUCCESS"

\* the metric reports made for batch j of record i
ReportsOf(i, j) == {m \in DOMAIN metricCalls[i] : metricCalls[i][m].batch = j}

\* the sum of d % 7 over d in 1..n
ModSum(n) == 21 * (n \div 7) + ((n % 7) * ((n % 7) + 1)) \div 2

\* the byte sizes of a chunk summed in closed form: its records are the
\* documents first..last of one payload, each of 20 + (d % 7) bytes
BytesOfRun(recs) ==
    IF recs = <<>> THEN 0
    ELSE 20 * Len(recs) + ModSum(recs[Len(recs)]) - ModSum(recs[1] - 1)

\* C19: a usage metric is reported for a chunk only once its sink call has
\* succeeded and only with SEND_METRIC "Yes": none for a chunk whose sink
\* call failed or is under way, none when metrics are off, at most one per
\* chunk, and its value is the sum of the byte sizes of the chunk's records.
C19_MetricGating ==
    \A i \in RecIdx :
        /\ metricCalls[i] # <<>> => SEND_METRIC = "Yes"
        /\ \A m \in DOMAIN metricCalls[i] :
              /\ metricCalls[i][m].batch \in DOMAIN bst[i]
              /\ bst[i][metricCalls[i][m].batch] \in {"metric", "done"}
              /\ metricCalls[i][m].TotalItemSize
                    = BytesOfRun(batches[i][metricCalls[i][m].batch])
        /\ \A j \in DOMAIN bst[i] :
              /\ Cardinality(ReportsOf(i, j)) <= 1
              /\ bst[i][j] \in {"inflight", "failed"} => ReportsOf(i, j) = {}

C19_Witness ==
    /\ build = "chunked"
    /\ \E i \in RecIdx :
          /\ Len(bst[i]) = 2
          /\ bst[i][1] = "failed"
          /\ bst[i][2] = "done"
          /\ ReportsOf(i, 1) = {}
          /\ \E m \in ReportsOf(i, 2) :
                metricCalls[i][m].TotalItemSize > Len(batches[i][2])

\* C20: a metric report whose POST failed leaves its chunk processed: the
\* chunk's sink call and the report were each made once, the failure is not
\* logged against the record, a record whose chunks are all processed is
\* fulfilled, and the handler does not reject.
C20_MetricFailureSwallowed ==
    \A e \in metricErrors :
        /\ bst[e[1]][e[2]] = "done"
        /\ Cardinality({c \in DOMAIN sinkCalls :
                           sinkCalls[c].rec = e[1] /\ sinkCalls[c].batch = e[2]}) = 1
        /\ Cardinality(ReportsOf(e[1], e[2])) = 1
        /\ <<e[1], "sending the metric failed">> \notin logged
        /\ (\A j \in DOMAIN bst[e[1]] : bst[e[1]][j] = "done")
              => task[e[1]] = "fulfilled" /\ ~Failed(e[1])
        /\ hpc # "rejected"
        /\ NothingInFlight => hpc = "resolved"

C20_Witness ==
    /\ hpc = "resolved"
    /\ \E e \in metricErrors :
          /\ task[e[1]] = "fulfilled"
          /\ Len(bst[e[1]]) = 2
          /\ \E f \in metricErrors : f[1] # e[1]

\* C26: when ec2.describeRegions fails or answers without a region list,
\* getRegions rejects, the Custom::CWDestination request ends FAILED whatever
\* its type, and no delete, create or policy call is made in any region.
C26_EnumerationFailureAborts ==
    describeOut \in {"error", "noRegions"} =>
        /\ gpc = "rejected"
        /\ status = "FAILED" /\ hst = "rejected"
        /\ CwCalls = <<>>
        /\ del = <<>> /\ cr = <<>>
        /\ dest = dest0

C26_Witness ==
    /\ describeOut = "noRegions"
    /\ RequestType = "Delete"
    /\ hst = "rejected"
    /\ \E r \in RegionNames : dest[r].exists

\* the regions that the request asks for
Requested ==
    IF Regions # <<>> /\ Regions[1] = "All"
    THEN {AwsRegions[k] : k \in DOMAIN AwsRegions}
    ELSE {Regions[k] : k \in DOMAIN Regions}

\* C28: for a Create or an Update every delete, create and policy call is
\* made in a requested region, and the destination of every region outside
\* the requested ones is what it was before the invocation.
C28_PutDestinationFrame ==
    RequestType # "Delete" =>
        /\ \A c \in DOMAIN CwCalls : CwCalls[c].region \in Requested
        /\ \A r \in RegionNames \ Requested : dest[r] = dest0[r]

C28_Witness ==
    /\ RequestType = "Update"
    /\ Regions = <<"us-east-1">>
    /\ hst = "returned"
    /\ dest0["us-east-1"] = OldDest /\ dest0["us-west-2"] = OldDest
    /\ dest["us-west-2"] = OldDest
    /\ HoldsNew("us-east-1")

\* C21: a Custom::LaunchData request with SEND_METRIC "Yes" whose metrics
\* POST has settled, with a 2xx answer, another status or a network error,
\* has returned a SUCCESS response.
C21_LaunchDataNeverFails ==
    (dResourceType = "Custom::LaunchData" /\ dSendMetric = "Yes" /\ dPost # "-")
        => dst = "returned" /\ dStatus = "SUCCESS"

C21_Witness ==
    /\ dResourceType = "Custom::LaunchData" /\ dSendMetric = "Yes"
    /\ dRequestType = "Delete"
    /\ dPost = "networkError"
    /\ dst = "returned"

\* C22: a Create for Custom::CreateUUID asks uuidv4 for one identifier,
\* makes no external call and returns SUCCESS with that identifier as UUID;
\* an Update or a Delete for Custom::CreateUUID asks for none.
C22_UuidOnCreateOnly ==
    (dResourceType = "Custom::CreateUUID" /\ dst # "idle") =>
        IF dRequestType = "Create"
        THEN /\ dst = "returned" /\ dStatus = "SUCCESS"
             /\ Len(dMinted) = 1
             /\ dData = [key |-> "UUID", value |-> dMinted[1]]
             /\ dCalls = <<>>
        ELSE /\ dMinted = <<>>
             /\ dData.key # "UUID"

C22_Witness ==
    /\ dResourceType = "Custom::CreateUUID" /\ dRequestType = "Create"
    /\ dst = "returned"
    /\ dData.value = "uuid-b"

\* the requests that no branch of the handler takes
Unhandled ==
    \/ dResourceType \in {"Custom::CreateUUID", "Custom::CreateESServiceRole"}
          /\ dRequestType \in {"Update", "Delete"}
    \/ dResourceType = "Custom::LaunchData" /\ dSendMetric # "Yes"
    \/ dResourceType = "Custom::Other"

\* C29: a request that no branch takes makes no external call, mints no
\* identifier and returns SUCCESS with the data "no data".
C29_DispatchDefault ==
    (Unhandled /\ dst # "idle") =>
        /\ dst = "returned" /\ dStatus = "SUCCESS"
        /\ dData = [key |-> "Data", value |-> "no data"]
        /\ dCalls = <<>>
        /\ dMinted = <<>>

C29_Witness ==
    /\ dResourceType = "Custom::LaunchData" /\ dSendMetric = "No"
    /\ dRequestType = "Create"
    /\ dst = "returned"

\* C27: once the transformer handler's promise is resolved, no sink call
\* made during the invocation is still under way.
C27_NoSinkCallOutlivesInvocation ==
    hpc = "resolved" =>
        \A i \in RecIdx : \A j \in DOMAIN bst[i] : bst[i][j] # "inflight"

\* C27 for the handler that sends each record's documents in one call
C27_UnchunkedBuild ==
    (build = "unchunked" /\ hpc = "resolved") =>
        \A i \in RecIdx : \A j \in DOMAIN bst[i] : bst[i][j] # "inflight"

\* C25: after one or more calls of applyCfnNagSuppressRules on a resource,
\* rules_to_suppress has exactly one entry for every suppression id that
\* the resource had or was given, none for another id, each with the reason
\* given last for that id, and the ids stand in the order in which they
\* first appeared.
C25_SuppressionsAccumulate ==
    nagCalls >= 1 =>
        /\ nagHas
        /\ {nagRules[n].id : n \in DOMAIN nagRules}
              = {nagHist[k].id : k \in DOMAIN nagHist}
        /\ \A m, n \in DOMAIN nagRules : nagRules[m].id = nagRules[n].id => m = n
        /\ \A n \in DOMAIN nagRules :
              \E k \in DOMAIN nagHist :
                  /\ nagHist[k] = nagRules[n]
                  /\ \A j \in (k + 1)..Len(nagHist) : nagHist[j].id # nagRules[n].id
        /\ \A m, n \in DOMAIN nagRules :
              m < n =>
                \E k \in DOMAIN nagHist :
                    /\ nagHist[k].id = nagRules[m].id
                    /\ \A j \in 1..k : nagHist[j].id # nagRules[n].id

C25_Witness ==
    /\ nagCalls = 2
    /\ Len(nagHist) = 3
    /\ nagHist[1].id = "W1" /\ nagHist[2].id = "W2" /\ nagHist[3].id = "W1"
    /\ nagHist[1].reason # nagHist[3].reason
    /\ nagRules = <<nagHist[3], nagHist[2]>>

\* the current request has nothing under way any more
AuthQuiet == apc \in {"done", "returned"}

\* what C30 says of the requests seen so far: never two responses, and one
\* response once nothing is under way
OneResponseEach ==
    /\ Len(aResponses) <= 1
    /\ AuthQuiet => Len(aResponses) = 1
    /\ \A n \in DOMAIN aHistory : Len(aHistory[n].responses) = 1

\* C30: the auth handler answers every Create, Update and Delete exactly
\* once: it never calls sendResponse twice for a request, and once nothing
\* of the request is under way it has called it once, whatever the AWS
\* calls' outcomes.
C30_AuthRespondsOnce == OneResponseEach

\* C30 for the handler of auth/index.js
C30_UuidBuild == authBuild = "uuid" => OneResponseEach

\* the numeric strings among the values, with the numbers they stand for
NumericStrings == {"76", "1234", "0x10", " 12 "}

ParsedValue(raw) ==
    CASE raw = "76" -> 76
      [] raw = "1234" -> 1234
      [] raw = "0x10" -> 16
      [] raw = " 12 " -> 12

DecimalText(raw) ==
    CASE raw = "76" -> "76"
      [] raw = "1234" -> "1234"
      [] raw = "0x10" -> "16"
      [] raw = " 12 " -> "12"

\* extractedFields is there, holds a field, and holds numeric strings only
OnlyNumericFields ==
    /\ xExtracted
    /\ \E k \in FieldKeys : xFields[k].has
    /\ \A k \in FieldKeys : xFields[k].has => xFields[k].raw \in NumericStrings

\* the fields of extractedFields that no fixed metadata replaces
OwnFields == {k \in FieldKeys \ MetaKeys : xFields[k].has}

IsoOf(ts) ==
    CASE ts = [s |-> 0, ms |-> 0] -> "1970-01-01T00:00:00.000Z"
      [] ts = [s |-> 1440442987, ms |-> 0] -> "2015-08-24T19:03:07.000Z"
      [] ts = [s |-> 1440442987, ms |-> 1] -> "2015-08-24T19:03:07.001Z"
      [] ts = [s |-> 1709251199, ms |-> 999] -> "2024-02-29T23:59:59.999Z"

\* C24: the document has timestamp = the ISO-8601 form of the event's
\* epoch millis, id = the event's id, type = "CloudWatchLogs", and @message,
\* @owner, @log_group, @log_stream = the event's message and the payload's
\* owner, logGroup and logStream, whatever extractedFields or the JSON in the
\* message hold under these keys.
C24_FixedMetadata ==
    xDone =>
        /\ xDoc["timestamp"] = Str(IsoOf(xTimestamp))
        /\ xDoc["id"] = Str(xId)
        /\ xDoc["type"] = Str("CloudWatchLogs")
        /\ xDoc["@message"] = Str(xMessage)
        /\ xDoc["@owner"] = Str(xOwner)
        /\ xDoc["@log_group"] = Str(LogGroup)
        /\ xDoc["@log_stream"] = Str(LogStream)

C24_Witness ==
    /\ xDone
    /\ ~xExtracted
    /\ extractJson(xMessage) # ""
    /\ JSONparse(extractJson(xMessage))["id"] = Str("evil")
    /\ xDoc["bytes"] = Num(5)
    /\ xDoc["id"] = Str("eventId1")
    /\ xTimestamp.s = 1709251199

====
